---------------------------- MODULE Spec2Model ----------------------------
(***************************************************************************)
(* A model of keyvalue_sqlite.KeyValueSqlite: a dictionary-like store kept *)
(* in one table (key TEXT PRIMARY KEY, value TEXT) of an sqlite file.      *)
(*                                                                         *)
(* Every method opens its own connection, issues "BEGIN" (a deferred       *)
(* transaction: no file lock yet), executes its statements, commits and    *)
(* closes.  The model follows each call statement by statement, with the   *)
(* file locks the engine takes for each statement (SHARED for a read,      *)
(* RESERVED for a write, PENDING/EXCLUSIVE during the commit) and the      *)
(* busy timeout of the connection (sqlite3.OperationalError "database is   *)
(* locked").  Values are stored as the JSON text json.dumps produces and   *)
(* are read back with json.loads; texts are sequences of characters.       *)
(***************************************************************************)
EXTENDS Integers, Sequences, FiniteSets, TLC

(***************************************************************************)
(* Bounds of the model.                                                    *)
(***************************************************************************)
\* Number of concurrent callers (threads or processes) of the store.
NumCallers == 3
\* Largest absolute value of an integer an atomic_add may produce when
\* calls are issued one after the other without end.
MaxInt == 2

(***************************************************************************)
(* Characters and texts.  A text is a sequence of one-character strings.   *)
(***************************************************************************)
DigitChars == <<"0", "1", "2", "3", "4", "5", "6", "7", "8", "9">>

\* Code points of the characters the model uses (their ASCII codes).
CharCode(ch) ==
    CASE ch = " "  -> 32
      [] ch = "\"" -> 34
      [] ch = ","  -> 44
      [] ch = "-"  -> 45
      [] ch = "."  -> 46
      [] ch = "0"  -> 48
      [] ch = "1"  -> 49
      [] ch = "2"  -> 50
      [] ch = "3"  -> 51
      [] ch = "4"  -> 52
      [] ch = "5"  -> 53
      [] ch = "6"  -> 54
      [] ch = "7"  -> 55
      [] ch = "8"  -> 56
      [] ch = "9"  -> 57
      [] ch = ":"  -> 58
      [] ch = "["  -> 91
      [] ch = "\\" -> 92
      [] ch = "]"  -> 93
      [] ch = "a"  -> 97
      [] ch = "b"  -> 98
      [] ch = "c"  -> 99
      [] ch = "e"  -> 101
      [] ch = "f"  -> 102
      [] ch = "l"  -> 108
      [] ch = "n"  -> 110
      [] ch = "r"  -> 114
      [] ch = "s"  -> 115
      [] ch = "t"  -> 116
      [] ch = "u"  -> 117
      [] ch = "{"  -> 123
      [] ch = "}"  -> 125

IsDigit(ch) == CharCode(ch) >= 48 /\ CharCode(ch) <= 57

DigitVal(ch) == CharCode(ch) - 48

\* Comparison of two strings by code points, as Python's sort of str and
\* sqlite's BINARY collation of (ASCII) text both do.
RECURSIVE StrLess(_, _)
StrLess(x, y) ==
    IF y = <<>> THEN FALSE
    ELSE IF x = <<>> THEN TRUE
    ELSE IF CharCode(Head(x)) # CharCode(Head(y))
         THEN CharCode(Head(x)) < CharCode(Head(y))
         ELSE StrLess(Tail(x), Tail(y))

StrLeq(x, y) == x = y \/ StrLess(x, y)

(***************************************************************************)
(* Python values.  A value is a record tagged by its type:                 *)
(*   None, bool, int, float (counted in tenths: 15 is 1.5), str (a         *)
(*   sequence of characters), list (a sequence of values) and dict (a      *)
(*   function from its keys, themselves values, to values).                *)
(***************************************************************************)
PyNone == [t |-> "none"]
PyBool(x) == [t |-> "bool", b |-> x]
PyInt(x) == [t |-> "int", i |-> x]
PyFloat(x) == [t |-> "float", f |-> x]
PyStr(x) == [t |-> "str", s |-> x]
PyList(x) == [t |-> "list", l |-> x]
PyDict(x) == [t |-> "dict", d |-> x]

(***************************************************************************)
(* json_encode: json.dumps(val, sort_keys=True, ensure_ascii=False).       *)
(***************************************************************************)
RECURSIVE EncNat(_)
EncNat(n) ==
    IF n < 10 THEN <<DigitChars[n + 1]>>
    ELSE EncNat(n \div 10) \o <<DigitChars[(n % 10) + 1]>>

\* int.__repr__
EncInt(i) == IF i < 0 THEN <<"-">> \o EncNat(-i) ELSE EncNat(i)

\* float.__repr__ of a float with one fractional digit.
EncFloat(f) ==
    IF f < 0 THEN <<"-">> \o EncNat((-f) \div 10) \o <<".">> \o EncNat((-f) % 10)
    ELSE EncNat(f \div 10) \o <<".">> \o EncNat(f % 10)

\* The body of a JSON string: the quote and the backslash are escaped, every
\* other character is written as it is.
RECURSIVE EncChars(_)
EncChars(s) ==
    IF s = <<>> THEN <<>>
    ELSE IF Head(s) = "\"" \/ Head(s) = "\\"
         THEN <<"\\", Head(s)>> \o EncChars(Tail(s))
         ELSE <<Head(s)>> \o EncChars(Tail(s))

EncStr(s) == <<"\"">> \o EncChars(s) \o <<"\"">>

\* The str keys of a dict in increasing order (sort_keys=True).
RECURSIVE SortedStrs(_)
SortedStrs(S) ==
    IF S = {} THEN <<>>
    ELSE LET m == CHOOSE x \in S : \A y \in S : StrLeq(x.s, y.s)
         IN <<m>> \o SortedStrs(S \ {m})

RECURSIVE json_encode(_)
RECURSIVE EncItems(_)
RECURSIVE EncPairs(_, _)

\* The items of a list, separated by ", ".
EncItems(l) ==
    IF l = <<>> THEN <<>>
    ELSE IF Len(l) = 1 THEN json_encode(l[1])
    ELSE json_encode(l[1]) \o <<",", " ">> \o EncItems(Tail(l))

\* The members of a dict in the order ks of its keys, separated by ", ",
\* each as "key": value.
EncPairs(d, ks) ==
    IF ks = <<>> THEN <<>>
    ELSE LET one == EncStr(ks[1].s) \o <<":", " ">> \o json_encode(d[ks[1]])
         IN IF Len(ks) = 1 THEN one
            ELSE one \o <<",", " ">> \o EncPairs(d, Tail(ks))

json_encode(val) ==
    CASE val.t = "none"  -> <<"n", "u", "l", "l">>
      [] val.t = "bool"  -> IF val.b THEN <<"t", "r", "u", "e">>
                            ELSE <<"f", "a", "l", "s", "e">>
      [] val.t = "int"   -> EncInt(val.i)
      [] val.t = "float" -> EncFloat(val.f)
      [] val.t = "str"   -> EncStr(val.s)
      [] val.t = "list"  -> <<"[">> \o EncItems(val.l) \o <<"]">>
      [] val.t = "dict"  ->
            <<"{">> \o EncPairs(val.d, SortedStrs(DOMAIN val.d)) \o <<"}">>

(***************************************************************************)
(* json_decode: json.loads(val).  A parse gives [ok |-> TRUE, v |-> the    *)
(* value, rest |-> the text after it] or [ok |-> FALSE].  The numbers      *)
(* read are the integers and the decimals with one fractional digit; the   *)
(* escapes read are those of the quote and of the backslash.               *)
(***************************************************************************)
ParseFail == [ok |-> FALSE]

Parsed(val, rest) == [ok |-> TRUE, v |-> val, rest |-> rest]

RECURSIVE SkipWs(_)
SkipWs(txt) ==
    IF txt # <<>> /\ Head(txt) = " " THEN SkipWs(Tail(txt)) ELSE txt

StartsWith(txt, pre) ==
    Len(txt) >= Len(pre) /\ SubSeq(txt, 1, Len(pre)) = pre

Drop(txt, n) == SubSeq(txt, n + 1, Len(txt))

\* The number of digits txt starts with.
RECURSIVE DigitRun(_)
DigitRun(txt) ==
    IF txt # <<>> /\ IsDigit(Head(txt)) THEN 1 + DigitRun(Tail(txt)) ELSE 0

\* The number whose decimal digits are ds.
RECURSIVE NatOf(_)
NatOf(ds) ==
    IF ds = <<>> THEN 0
    ELSE 10 * NatOf(SubSeq(ds, 1, Len(ds) - 1)) + DigitVal(ds[Len(ds)])

\* A JSON number: -?(0|[1-9][0-9]*)(\.[0-9]+)?
ParseNumber(txt) ==
    LET neg  == txt # <<>> /\ Head(txt) = "-"
        body == IF neg THEN Tail(txt) ELSE txt
        run  == DigitRun(body)
        n    == IF run > 0 /\ Head(body) = "0" THEN 1 ELSE run
        int  == NatOf(SubSeq(body, 1, n))
        after == Drop(body, n)
        frac == IF after # <<>> /\ Head(after) = "." THEN DigitRun(Tail(after)) ELSE 0
    IN IF n = 0 THEN ParseFail
       ELSE IF frac = 0
            THEN Parsed(PyInt(IF neg THEN -int ELSE int), after)
       ELSE IF frac = 1
            THEN LET tenths == 10 * int + DigitVal(after[2])
                 IN Parsed(PyFloat(IF neg THEN -tenths ELSE tenths), Drop(after, 2))
       ELSE ParseFail

\* The characters of a JSON string up to its closing quote; txt starts
\* after the opening quote and acc holds the characters read so far.
RECURSIVE ParseChars(_, _)
ParseChars(txt, acc) ==
    IF txt = <<>> THEN ParseFail
    ELSE IF Head(txt) = "\"" THEN Parsed(acc, Tail(txt))
    ELSE IF Head(txt) = "\\"
         THEN IF Len(txt) >= 2 /\ (txt[2] = "\"" \/ txt[2] = "\\")
              THEN ParseChars(Drop(txt, 2), Append(acc, txt[2]))
              ELSE ParseFail
    ELSE ParseChars(Tail(txt), Append(acc, Head(txt)))

ParseString(txt) ==
    IF txt # <<>> /\ Head(txt) = "\"" THEN ParseChars(Tail(txt), <<>>)
    ELSE ParseFail

\* d with key k set to val (a later member of an object replaces an
\* earlier one with the same key).
DictPut(d, k, val) ==
    [x \in (DOMAIN d) \cup {k} |-> IF x = k THEN val ELSE d[x]]

RECURSIVE ParseValue(_)
RECURSIVE ParseItems(_, _)
RECURSIVE ParseMembers(_, _)

\* The items of an array after its "[" or after a ",".
ParseItems(txt, acc) ==
    LET item == ParseValue(SkipWs(txt))
    IN IF ~item.ok THEN ParseFail
       ELSE LET more == SkipWs(item.rest)
            IN IF more = <<>> THEN ParseFail
               ELSE IF Head(more) = "," THEN ParseItems(Tail(more), Append(acc, item.v))
               ELSE IF Head(more) = "]" THEN Parsed(PyList(Append(acc, item.v)), Tail(more))
               ELSE ParseFail

\* The members of an object after its "{" or after a ",".
ParseMembers(txt, acc) ==
    LET key == ParseString(SkipWs(txt))
    IN IF ~key.ok THEN ParseFail
       ELSE LET colon == SkipWs(key.rest)
            IN IF colon = <<>> \/ Head(colon) # ":" THEN ParseFail
               ELSE LET item == ParseValue(SkipWs(Tail(colon)))
                    IN IF ~item.ok THEN ParseFail
                       ELSE LET more == SkipWs(item.rest)
                                d    == DictPut(acc, PyStr(key.v), item.v)
                            IN IF more = <<>> THEN ParseFail
                               ELSE IF Head(more) = "," THEN ParseMembers(Tail(more), d)
                               ELSE IF Head(more) = "}" THEN Parsed(PyDict(d), Tail(more))
                               ELSE ParseFail

ParseValue(txt) ==
    IF txt = <<>> THEN ParseFail
    ELSE IF StartsWith(txt, <<"n", "u", "l", "l">>) THEN Parsed(PyNone, Drop(txt, 4))
    ELSE IF StartsWith(txt, <<"t", "r", "u", "e">>) THEN Parsed(PyBool(TRUE), Drop(txt, 4))
    ELSE IF StartsWith(txt, <<"f", "a", "l", "s", "e">>) THEN Parsed(PyBool(FALSE), Drop(txt, 5))
    ELSE IF Head(txt) = "\""
         THEN LET str == ParseString(txt)
              IN IF str.ok THEN Parsed(PyStr(str.v), str.rest) ELSE ParseFail
    ELSE IF Head(txt) = "["
         THEN IF SkipWs(Tail(txt)) # <<>> /\ Head(SkipWs(Tail(txt))) = "]"
              THEN Parsed(PyList(<<>>), Tail(SkipWs(Tail(txt))))
              ELSE ParseItems(Tail(txt), <<>>)
    ELSE IF Head(txt) = "{"
         THEN IF SkipWs(Tail(txt)) # <<>> /\ Head(SkipWs(Tail(txt))) = "}"
              THEN Parsed(PyDict(<<>>), Tail(SkipWs(Tail(txt))))
              ELSE ParseMembers(Tail(txt), <<>>)
    ELSE ParseNumber(txt)

\* json.loads: one value, with nothing but blanks around it; anything else
\* raises json.JSONDecodeError.
json_decode(val) ==
    LET got == ParseValue(SkipWs(val))
    IN IF got.ok /\ SkipWs(got.rest) = <<>> THEN [ok |-> TRUE, v |-> got.v]
       ELSE ParseFail

(***************************************************************************)
(* The table "key TEXT PRIMARY KEY UNIQUE NOT NULL, value TEXT" as the      *)
(* statements of the store see it: a function from the keys of its rows    *)
(* (texts) to their values (texts).                                        *)
(***************************************************************************)
EmptyTable == <<>>

\* The text a bound parameter is compared as with the TEXT column key: a
\* str as it is, an int as its decimal text (the column's affinity is
\* applied to it), None as NULL, which compares equal to nothing.
SqlKeyText(param) ==
    CASE param.t = "str" -> [null |-> FALSE, s |-> param.s]
      [] param.t = "int" -> [null |-> FALSE, s |-> EncInt(param.i)]
      [] OTHER           -> [null |-> TRUE]

\* What the column value holds after a parameter is stored in it: a str as
\* it is, a number as its text (TEXT affinity).
SqlValueText(param) ==
    CASE param.t = "str"   -> param.s
      [] param.t = "int"   -> EncInt(param.i)
      [] param.t = "float" -> EncFloat(param.f)

\* The number sqlite reads a text as in "value + ?": the longest numeric
\* prefix of the text, an INTEGER or, with a decimal point, a REAL; 0 when
\* the text does not start with a number.
SqlToNumeric(txt) ==
    LET body == SkipWs(txt)
        neg  == body # <<>> /\ Head(body) = "-"
        num  == IF neg THEN Tail(body) ELSE body
        n    == DigitRun(num)
        int  == NatOf(SubSeq(num, 1, n))
        after == Drop(num, n)
        frac == IF after # <<>> /\ Head(after) = "." THEN DigitRun(Tail(after)) ELSE 0
    IN IF n = 0 THEN PyInt(0)
       ELSE IF frac = 0 THEN PyInt(IF neg THEN -int ELSE int)
       ELSE LET tenths == 10 * int + DigitVal(after[2])
            IN PyFloat(IF neg THEN -tenths ELSE tenths)

\* x + y of sqlite: an INTEGER when both are, a REAL otherwise.
SqlAdd(x, y) ==
    IF x.t = "int" /\ y.t = "int" THEN PyInt(x.i + y.i)
    ELSE PyFloat((IF x.t = "int" THEN 10 * x.i ELSE x.f)
                 + (IF y.t = "int" THEN 10 * y.i ELSE y.f))

\* INSERT OR REPLACE INTO t (key, value) VALUES (?, ?)
SqlInsertOrReplace(tbl, key, val) ==
    [k \in (DOMAIN tbl) \cup {key} |-> IF k = key THEN val ELSE tbl[k]]

\* INSERT OR IGNORE INTO t (key, value) VALUES (?, ?)
SqlInsertOrIgnore(tbl, key, val) ==
    IF key \in DOMAIN tbl THEN tbl
    ELSE [k \in (DOMAIN tbl) \cup {key} |-> IF k = key THEN val ELSE tbl[k]]

\* INSERT INTO t (key, value) VALUES (?, ?): the row is added, or the
\* UNIQUE constraint on key fails (sqlite3.IntegrityError).
SqlInsert(tbl, key, val) ==
    IF key \in DOMAIN tbl THEN [ok |-> FALSE, tbl |-> tbl]
    ELSE [ok |-> TRUE,
          tbl |-> [k \in (DOMAIN tbl) \cup {key} |-> IF k = key THEN val ELSE tbl[k]]]

\* DELETE FROM t WHERE key=?, with the cursor's rowcount.
SqlDelete(tbl, key) ==
    IF key \in DOMAIN tbl
    THEN [tbl |-> [k \in (DOMAIN tbl) \ {key} |-> tbl[k]], rowcount |-> 1]
    ELSE [tbl |-> tbl, rowcount |-> 0]

\* DELETE FROM t
SqlDeleteAll(tbl) == EmptyTable

\* UPDATE t SET value = value + ? WHERE key = ?, with the cursor's rowcount.
SqlUpdateAdd(tbl, key, delta) ==
    IF key \in DOMAIN tbl
    THEN [tbl |-> [k \in DOMAIN tbl |->
                      IF k = key
                      THEN SqlValueText(SqlAdd(SqlToNumeric(tbl[k]), delta))
                      ELSE tbl[k]],
          rowcount |-> 1]
    ELSE [tbl |-> tbl, rowcount |-> 0]

\* SELECT value FROM t WHERE (key = ?): the values of the rows found.
SqlSelectValue(tbl, param) ==
    LET key == SqlKeyText(param)
    IN IF ~key.null /\ key.s \in DOMAIN tbl THEN <<tbl[key.s]>> ELSE <<>>

\* The keys of a set in increasing order (a scan of the key's index).
RECURSIVE KeysInOrder(_)
KeysInOrder(S) ==
    IF S = {} THEN <<>>
    ELSE LET m == CHOOSE x \in S : \A y \in S : StrLeq(x, y)
         IN <<m>> \o KeysInOrder(S \ {m})

\* A scan whose bounds are exclusive: key > ? AND key < ?.
SqlSelectBetweenExclusive(tbl, low, high) ==
    LET lo == SqlKeyText(low)
        hi == SqlKeyText(high)
    IN IF lo.null \/ hi.null THEN <<>>
       ELSE KeysInOrder({k \in DOMAIN tbl : StrLess(lo.s, k) /\ StrLess(k, hi.s)})

\* SELECT key FROM t WHERE key BETWEEN ? AND ?: the keys found, in order.
SqlSelectBetween(tbl, low, high) ==
    LET lo == SqlKeyText(low)
        hi == SqlKeyText(high)
    IN IF lo.null \/ hi.null THEN <<>>
       ELSE KeysInOrder({k \in DOMAIN tbl : StrLeq(lo.s, k) /\ StrLeq(k, hi.s)})

(***************************************************************************)
(* The methods of KeyValueSqlite.  A call is a record with the method's    *)
(* name and its arguments; what it gives its caller is a value returned    *)
(* or an exception raised.                                                 *)
(***************************************************************************)
NoResult == [kind |-> "none"]
Returns(val) == [kind |-> "return", v |-> val]
Raises(exc) == [kind |-> "raise", exc |-> exc]

\* KeyError("Invalid key: ...") and KeyError("Invalid key type ...") of check_key.
InvalidKey == "KeyError: invalid key"
\* KeyError('Missing key: ...') of get_or_raise and KeyError(key) of remove.
MissingKey == "KeyError: missing key"
\* sqlite3.OperationalError("database is locked"): the busy timeout expired.
DatabaseLocked == "OperationalError: database is locked"
\* sqlite3.IntegrityError("UNIQUE constraint failed").
UniqueFailed == "IntegrityError: UNIQUE constraint failed"
\* json.JSONDecodeError
DecodeFailed == "JSONDecodeError"

ReadMethods == {"get", "get_or_raise", "has_key", "keys", "key_range", "get_many",
                "dict_range", "get_range", "to_dict", "__len__"}
BatchMethods == {"update", "insert_or_ignore"}

\* check_key passes the key: it is not None and it is a str.
check_key(key) == key.t # "none" /\ key.t = "str"

\* The keys a method hands to check_key before it opens a connection.
CheckedKeys(o) ==
    CASE o.name \in {"set", "set_default", "get", "get_or_raise", "has_key",
                     "remove", "atomic_add"} -> {o.key}
      [] o.name \in {"key_range", "dict_range"} -> {o.low, o.high}
      [] o.name \in BatchMethods -> DOMAIN o.items
      [] OTHER -> {}

\* A get that gives None for a key without a row, whatever the default.
get_without_default(tbl, key, default) ==
    LET rows == SqlSelectValue(tbl, key)
    IN IF rows = <<>> THEN Returns(PyNone)
       ELSE IF json_decode(rows[1]).ok THEN Returns(json_decode(rows[1]).v)
       ELSE Raises(DecodeFailed)

\* get and get_or_raise: the first row found, decoded.
get(tbl, key, default) ==
    LET rows == SqlSelectValue(tbl, key)
    IN IF rows = <<>> THEN Returns(default)
       ELSE IF json_decode(rows[1]).ok THEN Returns(json_decode(rows[1]).v)
       ELSE Raises(DecodeFailed)

get_or_raise(tbl, key) ==
    LET rows == SqlSelectValue(tbl, key)
    IN IF rows = <<>> THEN Raises(MissingKey)
       ELSE IF json_decode(rows[1]).ok THEN Returns(json_decode(rows[1]).v)
       ELSE Raises(DecodeFailed)

\* A has_key written as "get(key) is not None".
has_key_by_value(tbl, key) == Returns(PyBool(get(tbl, key, PyNone) # Returns(PyNone)))

has_key(tbl, key) == Returns(PyBool(SqlSelectValue(tbl, key) # <<>>))

\* keys: SELECT key FROM t, the keys as the scan of the index gives them.
keys(tbl) ==
    LET ks == KeysInOrder(DOMAIN tbl)
    IN Returns(PyList([i \in DOMAIN ks |-> PyStr(ks[i])]))

key_range(tbl, low, high) ==
    LET ks == SqlSelectBetween(tbl, low, high)
    IN Returns(PyList([i \in DOMAIN ks |-> PyStr(ks[i])]))

\* get_many: the keys of a_set that have a row, with their decoded values.
get_many(tbl, a_set) ==
    LET found == {k \in a_set : SqlSelectValue(tbl, k) # <<>>}
    IN IF \A k \in found : json_decode(SqlSelectValue(tbl, k)[1]).ok
       THEN Returns(PyDict([k \in found |-> json_decode(SqlSelectValue(tbl, k)[1]).v]))
       ELSE Raises(DecodeFailed)

dict_range(tbl, low, high) ==
    LET ks == SqlSelectBetween(tbl, low, high)
        S  == {ks[i] : i \in DOMAIN ks}
    IN IF \A k \in S : json_decode(tbl[k]).ok
       THEN Returns(PyDict([k \in {PyStr(x) : x \in S} |-> json_decode(tbl[k.s]).v]))
       ELSE Raises(DecodeFailed)

\* get_range: a list of (key, value) tuples in the order of the scan.
get_range(tbl, low, high) ==
    LET ks == SqlSelectBetween(tbl, low, high)
    IN IF \A i \in DOMAIN ks : json_decode(tbl[ks[i]]).ok
       THEN Returns(PyList([i \in DOMAIN ks |->
                [t |-> "tuple", l |-> <<PyStr(ks[i]), json_decode(tbl[ks[i]]).v>>]]))
       ELSE Raises(DecodeFailed)

to_dict(tbl) ==
    IF \A k \in DOMAIN tbl : json_decode(tbl[k]).ok
    THEN Returns(PyDict([k \in {PyStr(x) : x \in DOMAIN tbl} |-> json_decode(tbl[k.s]).v]))
    ELSE Raises(DecodeFailed)

\* items: to_dict().items(); __len__: len(self.items()).
items(tbl) == to_dict(tbl)

__len__(tbl) ==
    IF items(tbl).kind = "return"
    THEN Returns(PyInt(Cardinality(DOMAIN items(tbl).v.d)))
    ELSE items(tbl)

\* What a reading method returns from the rows tbl.
ReadResult(o, tbl) ==
    CASE o.name = "get"          -> get(tbl, o.key, o.default)
      [] o.name = "get_or_raise" -> get_or_raise(tbl, o.key)
      [] o.name = "has_key"      -> has_key(tbl, o.key)
      [] o.name = "keys"         -> keys(tbl)
      [] o.name = "key_range"    -> key_range(tbl, o.low, o.high)
      [] o.name = "get_many"     -> get_many(tbl, o.a_set)
      [] o.name = "dict_range"   -> dict_range(tbl, o.low, o.high)
      [] o.name = "get_range"    -> get_range(tbl, o.low, o.high)
      [] o.name = "to_dict"      -> to_dict(tbl)
      [] o.name = "__len__"      -> __len__(tbl)

\* A reading method that executes no statement takes no lock: get_many of
\* an empty set.
ReadsNothing(o) == o.name = "get_many" /\ o.a_set = {}

\* The first statement of a writing method with one statement (for
\* atomic_add: its UPDATE), on the rows tbl: the rows after it and the
\* cursor's rowcount where the method reads it (0 where it does not).
\* A set whose statement is INSERT OR IGNORE.
set_or_ignore(tbl, key, val) ==
    [tbl |-> SqlInsertOrIgnore(tbl, key.s, json_encode(val)), rowcount |-> 0]

\* A set_default whose statement is INSERT OR REPLACE.
set_default_or_replace(tbl, key, val) ==
    [tbl |-> SqlInsertOrReplace(tbl, key.s, json_encode(val)), rowcount |-> 0]

set(tbl, key, val) ==
    [tbl |-> SqlInsertOrReplace(tbl, key.s, json_encode(val)), rowcount |-> 0]

set_default(tbl, key, val) ==
    [tbl |-> SqlInsertOrIgnore(tbl, key.s, json_encode(val)), rowcount |-> 0]

\* A remove whose DELETE has no WHERE clause.
remove_every_row(tbl, key) ==
    [tbl |-> SqlDeleteAll(tbl), rowcount |-> IF key.s \in DOMAIN tbl THEN 1 ELSE 0]

remove(tbl, key) == SqlDelete(tbl, key.s)

\* A clear whose DELETE spares the first key.
clear_but_first(tbl) ==
    [tbl |-> IF DOMAIN tbl = {} THEN tbl
             ELSE LET ks == KeysInOrder(DOMAIN tbl) IN [k \in {ks[1]} |-> tbl[k]],
     rowcount |-> 0]

clear(tbl) == [tbl |-> SqlDeleteAll(tbl), rowcount |-> 0]

\* An atomic_add whose UPDATE is SET value = ?: it stores the delta.
atomic_add_replaces(tbl, key, value) ==
    IF key.s \in DOMAIN tbl
    THEN [tbl |-> [k \in DOMAIN tbl |-> IF k = key.s THEN SqlValueText(value) ELSE tbl[k]],
          rowcount |-> 1]
    ELSE [tbl |-> tbl, rowcount |-> 0]

atomic_add(tbl, key, value) == SqlUpdateAdd(tbl, key.s, value)

WriteResult(o, tbl) ==
    CASE o.name = "set"         -> set(tbl, o.key, o.val)
      [] o.name = "set_default" -> set_default(tbl, o.key, o.val)
      [] o.name = "remove"      -> remove(tbl, o.key)
      [] o.name = "clear"       -> clear(tbl)
      [] o.name = "atomic_add"  -> atomic_add(tbl, o.key, o.value)

\* An update whose statement is INSERT OR IGNORE, and an insert_or_ignore
\* whose statement is INSERT OR REPLACE.
update_or_ignore(tbl, key, val) == SqlInsertOrIgnore(tbl, key.s, json_encode(val))

insert_or_replace(tbl, key, val) == SqlInsertOrReplace(tbl, key.s, json_encode(val))

\* One record of the executemany of update and of insert_or_ignore.
update(tbl, key, val) == SqlInsertOrReplace(tbl, key.s, json_encode(val))

insert_or_ignore(tbl, key, val) == SqlInsertOrIgnore(tbl, key.s, json_encode(val))

RecordResult(o, tbl, key) ==
    IF o.name = "update" THEN update(tbl, key, o.items[key])
    ELSE insert_or_ignore(tbl, key, o.items[key])

\* A remove that never raises.
AfterCommitSilent(o, rowcount) == Returns(PyNone)

\* What a writing method gives its caller once its commit succeeded:
\* remove returns inside its scope when one row was deleted, and after the
\* scope raises KeyError unless ignore_missing_key.
AfterCommit(o, rowcount) ==
    IF o.name = "remove" /\ rowcount # 1 /\ ~o.ignore_missing_key
    THEN Raises(MissingKey)
    ELSE Returns(PyNone)

(***************************************************************************)
(* The state: the committed rows of the table in the file, and for every   *)
(* caller the call it is in and the connection that call opened.           *)
(***************************************************************************)
VARIABLES
    schema,     \* the file holds the table (sqlite_master has its row)
    table,      \* the committed rows of the table: key -> value text
    initial,    \* the rows the table held when the callers started
    pc,         \* pc[c]: where caller c is in its call
    op,         \* op[c]: the call (method and arguments) of caller c
    conn,       \* conn[c]: caller c has a connection open
    lock,       \* lock[c]: the file lock that connection holds
    work,       \* work[c]: the rows as the open write transaction of c has them
    seen,       \* seen[c]: the committed rows the call of c found (at its first
                \* statement, or at its commit when it executed none)
    todo,       \* todo[c]: keys of the records executemany has still to execute
    rowcount,   \* rowcount[c]: cursor.rowcount of the call's DELETE or UPDATE
    out         \* out[c]: what the call gives its caller

vars == <<schema, table, initial, pc, op, conn, lock, work, seen, todo, rowcount, out>>

Callers == 1 .. NumCallers

NoCall == [name |-> "none"]

\* No connection holds PENDING: a SHARED lock can be taken.
CanShare(c) == \A d \in Callers \ {c} : lock[d] # "pending"

\* A write scope that shuts no other writer out.
CanReserveUnlocked(c) == TRUE

\* No other connection writes: after its SHARED lock the connection can
\* take the RESERVED lock.
CanReserve(c) == \A d \in Callers \ {c} : lock[d] \notin {"reserved", "pending"}

\* No other connection reads: the EXCLUSIVE lock of the commit can be taken.
CanCommit(c) == \A d \in Callers \ {c} : lock[d] # "shared"

\* Callers idle, no connection open.
InitCallers ==
    /\ pc = [c \in Callers |-> "idle"]
    /\ op = [c \in Callers |-> NoCall]
    /\ conn = [c \in Callers |-> FALSE]
    /\ lock = [c \in Callers |-> "unlocked"]
    /\ work = [c \in Callers |-> EmptyTable]
    /\ seen = [c \in Callers |-> EmptyTable]
    /\ todo = [c \in Callers |-> {}]
    /\ rowcount = [c \in Callers |-> 0]
    /\ out = [c \in Callers |-> NoResult]

\* The entry of a method: check_key on its keys, before any connection.
Invoke(c, o) ==
    /\ pc[c] = "idle"
    /\ op' = [op EXCEPT ![c] = o]
    /\ IF \A k \in CheckedKeys(o) : check_key(k)
       THEN /\ pc' = [pc EXCEPT ![c] = "connect"]
            /\ out' = out
       ELSE /\ pc' = [pc EXCEPT ![c] = "done"]
            /\ out' = [out EXCEPT ![c] = Raises(InvalidKey)]
    /\ UNCHANGED <<table, schema, initial, conn, lock, work, seen, todo, rowcount>>

\* _open_db_for_write / _open_db_for_read: sqlite3.connect, and the
\* method's conn.execute("BEGIN"), which starts a deferred transaction and
\* takes no lock.
Connect(c) ==
    /\ pc[c] = "connect"
    /\ conn' = [conn EXCEPT ![c] = TRUE]
    /\ IF op[c].name \in BatchMethods
       THEN /\ todo' = [todo EXCEPT ![c] = DOMAIN op[c].items]
            /\ pc' = [pc EXCEPT ![c] = IF DOMAIN op[c].items = {} THEN "commit" ELSE "executemany"]
       ELSE /\ todo' = todo
            /\ pc' = [pc EXCEPT ![c] = "execute"]
    /\ UNCHANGED <<table, schema, initial, op, lock, work, seen, rowcount, out>>

\* A SELECT that reads the rows of a write transaction still open on
\* another connection (a dirty read).
SelectUncommitted(c) ==
    /\ pc[c] = "execute"
    /\ op[c].name \in ReadMethods
    /\ LET rows == IF \E d \in Callers : lock[d] = "reserved"
                   THEN work[CHOOSE d \in Callers : lock[d] = "reserved"]
                   ELSE table
       IN /\ seen' = [seen EXCEPT ![c] = rows]
          /\ out' = [out EXCEPT ![c] = ReadResult(op[c], rows)]
    /\ lock' = [lock EXCEPT ![c] = IF ReadsNothing(op[c]) THEN "unlocked" ELSE "shared"]
    /\ pc' = [pc EXCEPT ![c] = "close"]
    /\ UNCHANGED <<table, schema, initial, op, conn, work, todo, rowcount>>

\* The SELECT of a reading method: the connection takes the SHARED lock and
\* reads the committed rows; the method's result is built from them.
Select(c) ==
    /\ pc[c] = "execute"
    /\ op[c].name \in ReadMethods
    /\ IF ReadsNothing(op[c]) THEN TRUE ELSE CanShare(c)
    /\ lock' = [lock EXCEPT ![c] = IF ReadsNothing(op[c]) THEN "unlocked" ELSE "shared"]
    /\ seen' = [seen EXCEPT ![c] = table]
    /\ out' = [out EXCEPT ![c] = ReadResult(op[c], table)]
    /\ pc' = [pc EXCEPT ![c] = "close"]
    /\ UNCHANGED <<table, schema, initial, op, conn, work, todo, rowcount>>

\* The statement of set, set_default, remove and clear, and the UPDATE of
\* atomic_add: the connection takes the RESERVED lock and changes its own
\* copy of the rows.
Execute(c) ==
    /\ pc[c] = "execute"
    /\ op[c].name \notin ReadMethods
    /\ CanReserve(c)
    /\ LET r == WriteResult(op[c], table)
       IN /\ work' = [work EXCEPT ![c] = r.tbl]
          /\ rowcount' = [rowcount EXCEPT ![c] = r.rowcount]
          /\ pc' = [pc EXCEPT ![c] =
                       IF op[c].name = "atomic_add" /\ r.rowcount = 0
                       THEN "insert" ELSE "commit"]
    /\ lock' = [lock EXCEPT ![c] = "reserved"]
    /\ seen' = [seen EXCEPT ![c] = table]
    /\ UNCHANGED <<table, schema, initial, op, conn, todo, out>>

\* An executemany on a connection in autocommit mode: every record is
\* committed as it is executed.
ExecuteManyAutocommit(c) ==
    /\ pc[c] = "executemany"
    /\ CanReserve(c) /\ CanCommit(c)
    /\ \E k \in todo[c] :
          /\ table' = RecordResult(op[c], table, k)
          /\ todo' = [todo EXCEPT ![c] = todo[c] \ {k}]
          /\ pc' = [pc EXCEPT ![c] = IF todo[c] = {k} THEN "commit" ELSE "executemany"]
    /\ work' = [work EXCEPT ![c] = table']
    /\ lock' = [lock EXCEPT ![c] = "reserved"]
    /\ seen' = [seen EXCEPT ![c] = IF lock[c] = "reserved" THEN seen[c] ELSE table]
    /\ UNCHANGED <<schema, initial, op, conn, rowcount, out>>

\* One record of conn.executemany in update and insert_or_ignore; the
\* first one takes the RESERVED lock.
ExecuteMany(c) ==
    /\ pc[c] = "executemany"
    /\ IF lock[c] = "reserved" THEN TRUE ELSE CanReserve(c)
    /\ \E k \in todo[c] :
          /\ work' = [work EXCEPT ![c] =
                         RecordResult(op[c], IF lock[c] = "reserved" THEN work[c] ELSE table, k)]
          /\ todo' = [todo EXCEPT ![c] = todo[c] \ {k}]
          /\ pc' = [pc EXCEPT ![c] = IF todo[c] = {k} THEN "commit" ELSE "executemany"]
    /\ lock' = [lock EXCEPT ![c] = "reserved"]
    /\ seen' = [seen EXCEPT ![c] = IF lock[c] = "reserved" THEN seen[c] ELSE table]
    /\ UNCHANGED <<table, schema, initial, op, conn, rowcount, out>>

\* atomic_add: the INSERT after an UPDATE that changed no row.
Insert(c) ==
    /\ pc[c] = "insert"
    /\ LET r == SqlInsert(work[c], op[c].key.s, SqlValueText(op[c].value))
       IN IF r.ok
          THEN /\ work' = [work EXCEPT ![c] = r.tbl]
               /\ pc' = [pc EXCEPT ![c] = "commit"]
               /\ out' = out
          ELSE /\ work' = work
               /\ pc' = [pc EXCEPT ![c] = "rollback"]
               /\ out' = [out EXCEPT ![c] = Raises(UniqueFailed)]
    /\ UNCHANGED <<table, schema, initial, op, conn, lock, seen, todo, rowcount>>

\* conn.commit(): with no reader left the rows of the transaction become
\* the committed rows and the lock is released.  A transaction that
\* executed no statement holds no lock and commits nothing.
Commit(c) ==
    /\ pc[c] = "commit"
    /\ IF lock[c] = "unlocked" THEN TRUE ELSE CanCommit(c)
    /\ table' = IF lock[c] = "unlocked" THEN table ELSE work[c]
    /\ lock' = [lock EXCEPT ![c] = "unlocked"]
    /\ seen' = [seen EXCEPT ![c] = IF lock[c] = "unlocked" THEN table ELSE seen[c]]
    /\ out' = [out EXCEPT ![c] = AfterCommit(op[c], rowcount[c])]
    /\ pc' = [pc EXCEPT ![c] = "close"]
    /\ UNCHANGED <<schema, initial, op, conn, work, todo, rowcount>>

\* conn.commit() while another connection still reads: the connection takes
\* the PENDING lock, which keeps new readers out, and waits.
CommitWait(c) ==
    /\ pc[c] = "commit"
    /\ lock[c] = "reserved"
    /\ ~CanCommit(c)
    /\ lock' = [lock EXCEPT ![c] = "pending"]
    /\ UNCHANGED <<table, schema, initial, pc, op, conn, work, seen, todo, rowcount, out>>

\* The statement or the commit of caller c waits for a lock another
\* connection holds.
Blocked(c) ==
    IF pc[c] = "execute"
    THEN IF op[c].name \in ReadMethods
         THEN ~ReadsNothing(op[c]) /\ ~CanShare(c)
         ELSE ~CanReserve(c)
    ELSE IF pc[c] = "executemany" THEN lock[c] # "reserved" /\ ~CanReserve(c)
    ELSE IF pc[c] = "commit" THEN lock[c] # "unlocked" /\ ~CanCommit(c)
    ELSE FALSE

\* A scope that answers the expiry of the busy timeout by starting the
\* call again with a new connection.
LockedRetries(c) ==
    /\ Blocked(c)
    /\ conn' = [conn EXCEPT ![c] = FALSE]
    /\ lock' = [lock EXCEPT ![c] = "unlocked"]
    /\ work' = [work EXCEPT ![c] = EmptyTable]
    /\ pc' = [pc EXCEPT ![c] = "connect"]
    /\ UNCHANGED <<table, schema, initial, op, seen, todo, rowcount, out>>

\* The busy timeout of the connection expires while it waits for a lock:
\* the statement raises sqlite3.OperationalError.  In a write scope the
\* exception reaches "except: conn.rollback()", in a read scope the
\* "finally: conn.close()".
Locked(c) ==
    /\ Blocked(c)
    /\ out' = [out EXCEPT ![c] = Raises(DatabaseLocked)]
    /\ pc' = [pc EXCEPT ![c] = IF op[c].name \in ReadMethods THEN "close" ELSE "rollback"]
    /\ UNCHANGED <<table, schema, initial, op, conn, lock, work, seen, todo, rowcount>>

\* A write scope without its "except: conn.rollback()": the exception
\* goes straight to the release of the connection.
RollbackSkipped(c) ==
    /\ pc[c] = "rollback"
    /\ pc' = [pc EXCEPT ![c] = "close"]
    /\ UNCHANGED <<table, schema, initial, op, conn, lock, work, seen, todo, rowcount, out>>

\* _open_db_for_write, "except: conn.rollback(); raise".
Rollback(c) ==
    /\ pc[c] = "rollback"
    /\ lock' = [lock EXCEPT ![c] = "unlocked"]
    /\ work' = [work EXCEPT ![c] = EmptyTable]
    /\ pc' = [pc EXCEPT ![c] = "close"]
    /\ UNCHANGED <<table, schema, initial, op, conn, seen, todo, rowcount, out>>

\* "finally: conn.close()" of both scopes: the connection and whatever
\* lock it still holds are released; the method returns or raises.
Close(c) ==
    /\ pc[c] = "close"
    /\ conn' = [conn EXCEPT ![c] = FALSE]
    /\ lock' = [lock EXCEPT ![c] = "unlocked"]
    /\ work' = [work EXCEPT ![c] = EmptyTable]
    /\ pc' = [pc EXCEPT ![c] = "done"]
    /\ UNCHANGED <<table, schema, initial, op, seen, todo, rowcount, out>>

\* The caller has its result and is free to make its next call.
Return(c) ==
    /\ pc[c] = "done"
    /\ pc' = [pc EXCEPT ![c] = "idle"]
    /\ op' = [op EXCEPT ![c] = NoCall]
    /\ seen' = [seen EXCEPT ![c] = EmptyTable]
    /\ todo' = [todo EXCEPT ![c] = {}]
    /\ rowcount' = [rowcount EXCEPT ![c] = 0]
    /\ out' = [out EXCEPT ![c] = NoResult]
    /\ UNCHANGED <<table, schema, initial, conn, lock, work>>

(***************************************************************************)
(* The arguments the calls of the model are made with.                     *)
(***************************************************************************)
KeyOne == PyStr(<<"1">>)
KeyA == PyStr(<<"a">>)

\* Keys check_key accepts, and keys it rejects: None and an int.
GoodKeys == {KeyOne, KeyA}
BadKeys == {PyNone, PyInt(1)}

\* Values of every JSON type: null, a boolean, an integer, a float, a
\* string with a character json escapes, a list and a dict whose keys are
\* not in sorted order.
Values ==
    { PyNone, PyBool(TRUE), PyInt(1), PyFloat(15), PyStr(<<"a", "\"">>),
      PyList(<<PyInt(1), PyStr(<<"b">>)>>),
      PyDict((PyStr(<<"b">>) :> PyInt(1)) @@ (PyStr(<<"a">>) :> PyNone)) }

Defaults == {PyNone, PyInt(0)}

Deltas == {PyInt(1), PyInt(-2)}

\* Dicts for update and insert_or_ignore, two of them with a key check_key
\* rejects.
Batches ==
    { <<>>,
      (KeyA :> PyInt(1)),
      (KeyOne :> PyStr(<<"b">>)) @@ (KeyA :> PyNone),
      (KeyA :> PyInt(1)) @@ (PyNone :> PyInt(1)),
      (KeyOne :> PyInt(1)) @@ (PyInt(1) :> PyNone) }

KeySets == { {}, {KeyA}, {KeyOne, KeyA}, {PyNone}, {PyInt(1), KeyA} }

Bounds == {KeyOne, KeyA, PyNone}

\* The number an atomic_add of delta would leave for key in tbl stays
\* within MaxInt.
WithinMaxInt(tbl, key, delta) ==
    LET now == IF key.s \in DOMAIN tbl THEN SqlToNumeric(tbl[key.s]) ELSE PyInt(0)
        sum == SqlAdd(now, delta)
    IN IF sum.t = "int" THEN sum.i <= MaxInt /\ -sum.i <= MaxInt
       ELSE sum.f <= 10 * MaxInt /\ -sum.f <= 10 * MaxInt

\* The calls a caller may make when the committed rows are tbl.
Calls(tbl) ==
    {[name |-> "set", key |-> k, val |-> v] : k \in GoodKeys \cup BadKeys, v \in Values}
    \cup {[name |-> "set_default", key |-> k, val |-> v] :
             k \in GoodKeys \cup BadKeys, v \in {PyInt(1), PyStr(<<"a", "\"">>)}}
    \cup {[name |-> "get", key |-> k, default |-> d] : k \in GoodKeys \cup BadKeys, d \in Defaults}
    \cup {[name |-> "get_or_raise", key |-> k] : k \in GoodKeys \cup BadKeys}
    \cup {[name |-> "has_key", key |-> k] : k \in GoodKeys \cup BadKeys}
    \cup {[name |-> "remove", key |-> k, ignore_missing_key |-> i] :
             k \in GoodKeys \cup BadKeys, i \in BOOLEAN}
    \cup {[name |-> "keys"], [name |-> "to_dict"], [name |-> "__len__"], [name |-> "clear"]}
    \cup {[name |-> n, low |-> l, high |-> h] :
             n \in {"key_range", "dict_range", "get_range"}, l \in Bounds, h \in Bounds}
    \cup {[name |-> "get_many", a_set |-> S] : S \in KeySets}
    \cup {[name |-> n, items |-> m] : n \in BatchMethods, m \in Batches}
    \cup {o \in {[name |-> "atomic_add", key |-> k, value |-> d] :
                    k \in GoodKeys \cup BadKeys, d \in Deltas} :
             check_key(o.key) => WithinMaxInt(tbl, o.key, o.value)}

(***************************************************************************)
(* SeqSpec: one caller in a thread of its own makes call after call on a   *)
(* store constructed on a new file.                                        *)
(***************************************************************************)
SeqInit ==
    /\ schema = TRUE
    /\ table = EmptyTable
    /\ initial = EmptyTable
    /\ InitCallers

SeqInvoke == \E o \in Calls(table) : Invoke(1, o)

SeqNext ==
    \/ SeqInvoke
    \/ Connect(1)
    \/ Select(1)
    \/ Execute(1)
    \/ ExecuteMany(1)
    \/ Insert(1)
    \/ Commit(1)
    \/ Close(1)
    \/ Return(1)

SeqSpec == SeqInit /\ [][SeqNext]_vars

(***************************************************************************)
(* AddSpec: every caller issues one atomic_add on the same key, all at     *)
(* the same time (test_atomic_add_threaded), on a table where the key is   *)
(* absent or holds a number.                                               *)
(***************************************************************************)
AddTables ==
    { EmptyTable,
      (KeyA.s :> json_encode(PyInt(1))),
      (KeyA.s :> json_encode(PyFloat(15))) }

AddInit ==
    /\ schema = TRUE
    /\ table \in AddTables
    /\ initial = table
    /\ InitCallers

AddInvoke(c) == \E d \in Deltas : Invoke(c, [name |-> "atomic_add", key |-> KeyA, value |-> d])

AddNext ==
    \E c \in Callers :
        \/ AddInvoke(c)
        \/ Connect(c)
        \/ Execute(c)
        \/ Insert(c)
        \/ Commit(c)
        \/ Locked(c)
        \/ Rollback(c)
        \/ Close(c)

AddSpec == AddInit /\ [][AddNext]_vars

(***************************************************************************)
(* Spec: two callers (threads, processes or two stores on the same file)   *)
(* make one call each at the same time.                                    *)
(***************************************************************************)
PairTables ==
    { EmptyTable,
      (KeyA.s :> json_encode(PyInt(1))),
      (KeyOne.s :> json_encode(PyStr(<<"b">>))) @@ (KeyA.s :> json_encode(PyInt(1))) }

PairCalls ==
    { [name |-> "atomic_add", key |-> KeyA, value |-> PyInt(1)],
      [name |-> "set", key |-> KeyA, val |-> PyInt(-2)],
      [name |-> "set_default", key |-> KeyA, val |-> PyInt(-2)],
      [name |-> "remove", key |-> KeyA, ignore_missing_key |-> FALSE],
      [name |-> "clear"],
      [name |-> "update", items |-> (KeyOne :> PyInt(1)) @@ (KeyA :> PyInt(-2))],
      [name |-> "insert_or_ignore", items |-> (KeyOne :> PyInt(1)) @@ (KeyA :> PyInt(-2))],
      [name |-> "update", items |-> (KeyA :> PyInt(1)) @@ (PyNone :> PyInt(1))],
      [name |-> "get", key |-> KeyA, default |-> PyNone],
      [name |-> "get_many", a_set |-> {KeyOne, KeyA}],
      [name |-> "dict_range", low |-> KeyOne, high |-> KeyA],
      [name |-> "to_dict"] }

Init ==
    /\ schema = TRUE
    /\ table \in PairTables
    /\ initial = table
    /\ InitCallers

PairInvoke(c) == \E o \in PairCalls : Invoke(c, o)

Next ==
    \E c \in {1, 2} :
        \/ PairInvoke(c)
        \/ Connect(c)
        \/ Select(c)
        \/ Execute(c)
        \/ ExecuteMany(c)
        \/ Insert(c)
        \/ Commit(c)
        \/ CommitWait(c)
        \/ Locked(c)
        \/ Rollback(c)
        \/ Close(c)

Spec == Init /\ [][Next]_vars

(***************************************************************************)
(* What a call does to the rows when it runs alone, from its first         *)
(* statement to its commit.                                                *)
(***************************************************************************)
RECURSIVE ExecuteAll(_, _, _)
ExecuteAll(o, tbl, ks) ==
    IF ks = {} THEN tbl
    ELSE LET k == CHOOSE x \in ks : TRUE
         IN ExecuteAll(o, RecordResult(o, tbl, k), ks \ {k})

Alone(o, tbl) ==
    IF o.name \in ReadMethods THEN tbl
    ELSE IF o.name \in BatchMethods THEN ExecuteAll(o, tbl, DOMAIN o.items)
    ELSE LET r == WriteResult(o, tbl)
         IN IF o.name = "atomic_add" /\ r.rowcount = 0
            THEN SqlInsert(r.tbl, o.key.s, SqlValueText(o.value)).tbl
            ELSE r.tbl

\* The callers whose call went through: it returned, or it is a remove
\* that found no row.
Through(S) == {c \in S : out[c] = Returns(PyNone) \/ out[c] = Raises(MissingKey)
                          \/ (op[c].name \in ReadMethods /\ out[c].kind = "return")}

\* The rows the calls of the callers S leave when they run one after the
\* other, in every order, from the rows tbl.
RECURSIVE Serial(_, _)
Serial(S, tbl) ==
    IF S = {} THEN {tbl}
    ELSE UNION {Serial(S \ {c}, Alone(op[c], tbl)) : c \in S}

AllDone(S) == \A c \in S : pc[c] = "done"

(***************************************************************************)
(* C1.  Concurrent atomic_add calls on one key.                            *)
(***************************************************************************)
RECURSIVE SumOfValues(_)
SumOfValues(S) ==
    IF S = {} THEN 0
    ELSE LET c == CHOOSE x \in S : TRUE
         IN op[c].value.i + SumOfValues(S \ {c})

\* The number the key held at the start, 0 when it was absent.
StartValue ==
    IF KeyA.s \in DOMAIN initial THEN json_decode(initial[KeyA.s]).v ELSE PyInt(0)

\* The Python number v + n, v an int or a float and n an integer.
Plus(v, n) == IF v.t = "int" THEN PyInt(v.i + n) ELSE PyFloat(v.f + 10 * n)

Added == {c \in Callers : out[c] = Returns(PyNone)}

\* C1 as claimed: when N callers have each issued atomic_add(key, d_i) at
\* the same time, every call has succeeded and get(key) gives the start
\* value (0 if the key was absent) plus the sum of all d_i.
C1_AllAddsSucceed ==
    AllDone(Callers) =>
        /\ \A c \in Callers : out[c] = Returns(PyNone)
        /\ get(table, KeyA, PyNone) = Returns(Plus(StartValue, SumOfValues(Callers)))

\* C1 as amended: when N callers have each issued atomic_add(key, d_i) at
\* the same time, every call has either succeeded or failed with "database
\* is locked" (its busy timeout expired while another caller held the
\* lock), and get(key) gives the start value (0 if the key was absent)
\* plus the sum of the d_i of the calls that succeeded; with no call
\* succeeded the rows are those of the start.  No increment is lost or
\* applied twice.
C1_SumOfSucceededAdds ==
    AllDone(Callers) =>
        /\ \A c \in Callers : out[c] \in {Returns(PyNone), Raises(DatabaseLocked)}
        /\ IF Added = {} THEN table = initial
           ELSE get(table, KeyA, PyNone) = Returns(Plus(StartValue, SumOfValues(Added)))
        /\ DOMAIN table \subseteq {KeyA.s}

\* Every caller is done, the key was absent at the start, one call failed
\* on the lock and at least two went through.
C1_Witness ==
    /\ AllDone(Callers)
    /\ initial = EmptyTable
    /\ \E c \in Callers : out[c] = Raises(DatabaseLocked)
    /\ Cardinality(Added) >= 2

(***************************************************************************)
(* C2.  atomic_add against the other writers.                              *)
(***************************************************************************)
\* C2: when two calls made at the same time are done, the rows are those
\* that the calls that went through leave when run one after the other in
\* some order; a call that failed on the lock or on its key left nothing.
\* So with atomic_add(k, d) against set(k, v) the key ends as v or v + d.
C2_WritersSerialized ==
    AllDone({1, 2}) => table \in Serial(Through({1, 2}), initial)

\* atomic_add(a, 1) ran against set(a, -2) on a table where a held 1, both
\* returned, and the add was applied to the value set: a holds -1.
C2_Witness ==
    /\ AllDone({1, 2})
    /\ initial = (KeyA.s :> json_encode(PyInt(1)))
    /\ \E c \in {1, 2} : op[c].name = "atomic_add" /\ out[c] = Returns(PyNone)
    /\ \E c \in {1, 2} : op[c].name = "set" /\ out[c] = Returns(PyNone)
    /\ get(table, KeyA, PyNone) = Returns(PyInt(-1))

(***************************************************************************)
(* C3 to C6, C9, C10: the calls of one caller, one after the other.  When  *)
(* a call is done, seen[1] holds the rows before it and table the rows     *)
(* after it.                                                               *)
(***************************************************************************)
Finished(name) == pc[1] = "done" /\ op[1].name = name

\* A default no value of the model equals: get gives it only for a key
\* without a row.
Absent == PyInt(0)

\* C3: after set(k, v) with a valid key, get(k) gives a value equal to v,
\* whatever v's type and whatever k held before (the most recent set
\* wins); the key is in the table and no other key came or went, so a set
\* on a present key leaves the number of keys as it was.
C3_SetThenGet ==
    (Finished("set") /\ check_key(op[1].key)) =>
        /\ out[1] = Returns(PyNone)
        /\ get(table, op[1].key, Absent) = Returns(op[1].val)
        /\ DOMAIN table = DOMAIN seen[1] \cup {op[1].key.s}
        /\ op[1].key.s \in DOMAIN seen[1] =>
              Cardinality(DOMAIN table) = Cardinality(DOMAIN seen[1])
        /\ \A k \in DOMAIN seen[1] \ {op[1].key.s} : table[k] = seen[1][k]

\* A set of a dict on a key that held something else.
C3_Witness ==
    /\ Finished("set")
    /\ out[1] = Returns(PyNone)
    /\ op[1].val.t = "dict"
    /\ op[1].key.s \in DOMAIN seen[1]
    /\ seen[1][op[1].key.s] # table[op[1].key.s]

\* C4: set_default(k, v) with a valid key returns without error; on an
\* absent key it stores v, on a present key it leaves the rows as they
\* were, so get(k) still gives the value written first.
C4_SetDefaultFirstWins ==
    (Finished("set_default") /\ check_key(op[1].key)) =>
        /\ out[1] = Returns(PyNone)
        /\ IF op[1].key.s \in DOMAIN seen[1]
           THEN /\ table = seen[1]
                /\ get(table, op[1].key, Absent) = get(seen[1], op[1].key, Absent)
           ELSE /\ get(table, op[1].key, Absent) = Returns(op[1].val)
                /\ DOMAIN table = DOMAIN seen[1] \cup {op[1].key.s}
                /\ \A k \in DOMAIN seen[1] : table[k] = seen[1][k]

\* A set_default on a key that holds another value.
C4_Witness ==
    /\ Finished("set_default")
    /\ out[1] = Returns(PyNone)
    /\ op[1].key.s \in DOMAIN seen[1]
    /\ seen[1][op[1].key.s] # json_encode(op[1].val)

\* C5: after insert_or_ignore(m) with valid keys, every key of m that was
\* absent holds its value of m, and every key that was present, in m or
\* not, holds what it held; no other key came or went.
C5_InsertOrIgnorePerRow ==
    (Finished("insert_or_ignore") /\ \A k \in DOMAIN op[1].items : check_key(k)) =>
        /\ out[1] = Returns(PyNone)
        /\ DOMAIN table = DOMAIN seen[1] \cup {k.s : k \in DOMAIN op[1].items}
        /\ \A k \in DOMAIN seen[1] : table[k] = seen[1][k]
        /\ \A k \in DOMAIN op[1].items :
              k.s \notin DOMAIN seen[1] => get(table, k, Absent) = Returns(op[1].items[k])

\* An insert_or_ignore with a key that was absent and a key that held
\* another value.
C5_Witness ==
    /\ Finished("insert_or_ignore")
    /\ out[1] = Returns(PyNone)
    /\ \E k \in DOMAIN op[1].items : k.s \notin DOMAIN seen[1]
    /\ \E k \in DOMAIN op[1].items :
          k.s \in DOMAIN seen[1] /\ seen[1][k.s] # json_encode(op[1].items[k])

\* The dict old with the members of m put over it.
Overridden(old, m) ==
    [k \in (DOMAIN old) \cup (DOMAIN m) |-> IF k \in DOMAIN m THEN m[k] ELSE old[k]]

\* C6: after update(m) with valid keys, the snapshot to_dict() is the
\* snapshot of before with the members of m put over it: the keys of m
\* hold m's values (the later write wins), every other key holds what it
\* held.
C6_UpdateOverrides ==
    (Finished("update") /\ \A k \in DOMAIN op[1].items : check_key(k)) =>
        /\ out[1] = Returns(PyNone)
        /\ to_dict(seen[1]).kind = "return"
        /\ to_dict(table) = Returns(PyDict(Overridden(to_dict(seen[1]).v.d, op[1].items)))

\* An update with a key that held another value, on a table with a key
\* the update does not name.
C6_Witness ==
    /\ Finished("update")
    /\ out[1] = Returns(PyNone)
    /\ \E k \in DOMAIN op[1].items :
          k.s \in DOMAIN seen[1] /\ seen[1][k.s] # json_encode(op[1].items[k])
    /\ \E x \in DOMAIN seen[1] : PyStr(x) \notin DOMAIN op[1].items

(***************************************************************************)
(* C7.  update and insert_or_ignore are all or nothing.                    *)
(***************************************************************************)
\* The rows new are the rows old with every record of the batch o applied.
AllApplied(o, old, new) ==
    /\ DOMAIN new = DOMAIN old \cup {k.s : k \in DOMAIN o.items}
    /\ \A x \in DOMAIN old : PyStr(x) \notin DOMAIN o.items => new[x] = old[x]
    /\ \A k \in DOMAIN o.items :
          new[k.s] = IF o.name = "update" \/ k.s \notin DOMAIN old
                     THEN json_encode(o.items[k]) ELSE old[k.s]

\* C7: in every step of a call of update or insert_or_ignore: a batch with
\* a key check_key rejects raises at once, with no connection opened and
\* the rows untouched; the call changes the committed rows in one step
\* only, to the rows with every record applied, and then returns; and a
\* call that raises (its key, or the lock it waited for at its first
\* record or at its commit) leaves the committed rows as they are.
C7_BatchAllOrNothing ==
    [][\A c \in {1, 2} :
          (op'[c].name \in BatchMethods /\ pc'[c] # pc[c]) =>
              /\ (\E k \in DOMAIN op'[c].items : ~check_key(k)) =>
                    /\ pc'[c] = "done"
                    /\ out'[c] = Raises(InvalidKey)
                    /\ ~conn'[c]
                    /\ table' = table
              /\ table' # table =>
                    /\ AllApplied(op[c], table, table')
                    /\ out'[c] = Returns(PyNone)
              /\ out'[c].kind = "raise" => table' = table]_vars

\* An update of two records has executed both, its commit has failed on
\* the lock of a reader and the call is about to roll back.
C7_Witness ==
    \E c \in {1, 2} :
        /\ pc[c] = "rollback"
        /\ op[c].name = "update"
        /\ todo[c] = {}
        /\ work[c] # table
        /\ out[c] = Raises(DatabaseLocked)

(***************************************************************************)
(* C8.  Keys that are None or no str.                                      *)
(***************************************************************************)
\* The keys of a call that takes string keys.
KeyArguments(o) ==
    CASE o.name \in {"set", "set_default", "get", "get_or_raise", "has_key",
                     "remove", "atomic_add"} -> {o.key}
      [] o.name \in {"key_range", "dict_range", "get_range"} -> {o.low, o.high}
      [] o.name = "get_many" -> o.a_set
      [] o.name \in BatchMethods -> DOMAIN o.items
      [] OTHER -> {}

\* C8: a call given a key that is None or not a str opens no connection
\* and ends raising the KeyError of check_key.
C8_BadKeyRejected ==
    \A c \in Callers :
        (pc[c] # "idle" /\ \E k \in KeyArguments(op[c]) : k.t # "str") =>
            /\ pc[c] = "done"
            /\ out[c] = Raises(InvalidKey)
            /\ ~conn[c]

(***************************************************************************)
(* C9.  remove.                                                            *)
(***************************************************************************)
\* C9: remove(k) on a present key returns and deletes that key and no
\* other, so that k is absent for the next remove; on an absent key it
\* leaves the rows as they were and raises KeyError, or returns when
\* ignore_missing_key is set.
C9_Remove ==
    (Finished("remove") /\ check_key(op[1].key)) =>
        IF op[1].key.s \in DOMAIN seen[1]
        THEN /\ out[1] = Returns(PyNone)
             /\ DOMAIN table = DOMAIN seen[1] \ {op[1].key.s}
             /\ \A k \in DOMAIN table : table[k] = seen[1][k]
        ELSE /\ table = seen[1]
             /\ out[1] = IF op[1].ignore_missing_key THEN Returns(PyNone)
                         ELSE Raises(MissingKey)

\* A remove of an absent key from a table with another key has raised.
C9_Witness ==
    /\ Finished("remove")
    /\ out[1] = Raises(MissingKey)
    /\ table # EmptyTable

(***************************************************************************)
(* C10.  get and get_or_raise.                                             *)
(***************************************************************************)
\* C10: get(k, default) on an absent key returns default and never raises
\* the KeyError of a missing key; get_or_raise(k) (and store[k]) on an
\* absent key raises it; on a present key both return the value whose
\* JSON text the row holds.  Neither changes the rows.
C10_Lookup ==
    ((Finished("get") \/ Finished("get_or_raise")) /\ check_key(op[1].key)) =>
        /\ table = seen[1]
        /\ IF op[1].key.s \in DOMAIN seen[1]
           THEN out[1].kind = "return" /\ json_encode(out[1].v) = seen[1][op[1].key.s]
           ELSE out[1] = IF op[1].name = "get" THEN Returns(op[1].default)
                         ELSE Raises(MissingKey)

\* A get with a default other than None on an absent key of a table that
\* is not empty has returned the default.
C10_Witness ==
    /\ Finished("get")
    /\ check_key(op[1].key)
    /\ op[1].key.s \notin DOMAIN seen[1]
    /\ op[1].default # PyNone
    /\ out[1] = Returns(op[1].default)
    /\ table # EmptyTable

(***************************************************************************)
(* C11.  clear.                                                            *)
(***************************************************************************)
\* C11: when clear() has returned, whatever the rows were, no key remains
\* (len(store) is 0 and keys() is empty), the table is still in the file,
\* and a set(k, v) made next on the same store is readable by get(k); a
\* len(store) call gives the number of rows it found.
C11_ClearEmpties ==
    /\ Finished("clear") =>
          /\ out[1] = Returns(PyNone)
          /\ schema
          /\ __len__(table) = Returns(PyInt(0))
          /\ keys(table) = Returns(PyList(<<>>))
          /\ \A k \in GoodKeys, v \in Values :
                get(Alone([name |-> "set", key |-> k, val |-> v], table), k, Absent)
                    = Returns(v)
    /\ Finished("__len__") =>
          out[1] = Returns(PyInt(Cardinality(DOMAIN seen[1])))

\* clear() has returned on a table that held two rows.
C11_Witness ==
    /\ Finished("clear")
    /\ Cardinality(DOMAIN seen[1]) = 2
    /\ table = EmptyTable

(***************************************************************************)
(* C12.  Range scans.                                                      *)
(***************************************************************************)
\* The stored keys from low to high, both included.
Between(tbl, low, high) ==
    {k \in DOMAIN tbl : StrLeq(low.s, k) /\ StrLeq(k, high.s)}

InRange == Between(seen[1], op[1].low, op[1].high)

\* C12: with str bounds, key_range(low, high) returns exactly the stored
\* keys k with low <= k <= high, each once; dict_range returns the dict of
\* those keys with their stored values and get_range the list of their
\* (key, value) pairs; when low > high or no key lies within the bounds
\* the result is empty and nothing is raised.  No scan changes the rows.
C12_RangeInclusive ==
    \A name \in {"key_range", "dict_range", "get_range"} :
        (Finished(name) /\ check_key(op[1].low) /\ check_key(op[1].high)) =>
            /\ out[1].kind = "return"
            /\ table = seen[1]
            /\ StrLess(op[1].high.s, op[1].low.s) => InRange = {}
            /\ IF name = "dict_range"
               THEN /\ DOMAIN out[1].v.d = {PyStr(k) : k \in InRange}
                    /\ \A k \in InRange :
                          Returns(out[1].v.d[PyStr(k)]) = get(seen[1], PyStr(k), Absent)
               ELSE /\ Len(out[1].v.l) = Cardinality(InRange)
                    /\ IF name = "key_range"
                       THEN {out[1].v.l[i] : i \in DOMAIN out[1].v.l}
                                = {PyStr(k) : k \in InRange}
                       ELSE /\ {out[1].v.l[i].l[1] : i \in DOMAIN out[1].v.l}
                                   = {PyStr(k) : k \in InRange}
                            /\ \A i \in DOMAIN out[1].v.l :
                                  Returns(out[1].v.l[i].l[2])
                                      = get(seen[1], out[1].v.l[i].l[1], Absent)
            /\ InRange = {} =>
                  out[1] = Returns(IF name = "dict_range" THEN PyDict(<<>>) ELSE PyList(<<>>))

\* A get_range whose two bounds are the two stored keys has returned both.
C12_Witness ==
    /\ Finished("get_range")
    /\ check_key(op[1].low) /\ check_key(op[1].high)
    /\ DOMAIN seen[1] = {op[1].low.s, op[1].high.s}
    /\ op[1].low # op[1].high
    /\ Len(out[1].v.l) = 2

(***************************************************************************)
(* C13, C14.  atomic_add by one caller.                                    *)
(***************************************************************************)
\* The decoded value the key of the call held before the call.
Held == json_decode(seen[1][op[1].key.s]).v

OtherKeysKept ==
    /\ DOMAIN table = DOMAIN seen[1] \cup {op[1].key.s}
    /\ \A k \in DOMAIN seen[1] \ {op[1].key.s} : table[k] = seen[1][k]

\* C13: atomic_add(k, d) by one caller returns None; on a key holding an
\* int or a float v, get(k) then gives v + d (d negative too); on a key
\* without a row it creates the row and get(k) gives d; no other key
\* changes.  Between the UPDATE and the INSERT of the call nothing is
\* committed: the transaction holds its lock and the table is as found.
C13_AtomicAddResult ==
    /\ (Finished("atomic_add") /\ check_key(op[1].key)) =>
          IF op[1].key.s \notin DOMAIN seen[1]
          THEN /\ out[1] = Returns(PyNone)
               /\ op[1].key.s \in DOMAIN table
               /\ get(table, op[1].key, Absent) = Returns(op[1].value)
               /\ OtherKeysKept
          ELSE Held.t \in {"int", "float"} =>
                  /\ out[1] = Returns(PyNone)
                  /\ get(table, op[1].key, PyNone) = Returns(Plus(Held, op[1].value.i))
                  /\ OtherKeysKept
    /\ pc[1] = "insert" =>
          /\ lock[1] = "reserved"
          /\ table = seen[1]
          /\ work[1] = seen[1]
          /\ op[1].key.s \notin DOMAIN seen[1]

\* atomic_add with a negative delta has returned on a key that held a
\* float, in a table with another row.
C13_Witness ==
    /\ Finished("atomic_add")
    /\ check_key(op[1].key)
    /\ DOMAIN seen[1] = {KeyOne.s, KeyA.s}
    /\ Held.t = "float"
    /\ op[1].value.i < 0
    /\ out[1] = Returns(PyNone)

\* C14: atomic_add(k, d) on a key whose stored value is not a number (a
\* str, dict, list, bool or None) raises and leaves the stored value of k
\* as it was.
C14_NonNumberRejected ==
    (/\ Finished("atomic_add")
     /\ check_key(op[1].key)
     /\ op[1].key.s \in DOMAIN seen[1]
     /\ Held.t \notin {"int", "float"}) =>
        /\ out[1].kind = "raise"
        /\ table[op[1].key.s] = seen[1][op[1].key.s]

(***************************************************************************)
(* Construction: __init__ calls create_table, which looks the table up in  *)
(* sqlite_master inside a read scope and, when it is not there, creates it *)
(* inside a write scope.                                                   *)
(***************************************************************************)
\* sqlite3.OperationalError("table ... already exists") of CREATE TABLE.
TableExists == "OperationalError: table already exists"

\* __init__ up to the sqlite3.connect of create_table's read scope.
Construct(c) ==
    /\ pc[c] = "idle"
    /\ op' = [op EXCEPT ![c] = [name |-> "__init__"]]
    /\ conn' = [conn EXCEPT ![c] = TRUE]
    /\ pc' = [pc EXCEPT ![c] = "check"]
    /\ UNCHANGED <<schema, table, initial, lock, work, seen, todo, rowcount, out>>

\* SELECT name FROM sqlite_master ... and fetchall(), outside a
\* transaction: the SHARED lock is released when the rows are fetched.
\* With the table there create_table returns from inside the read scope.
CheckTable(c) ==
    /\ pc[c] = "check"
    /\ CanShare(c)
    /\ seen' = [seen EXCEPT ![c] = table]
    /\ IF schema
       THEN /\ out' = [out EXCEPT ![c] = Returns(PyNone)]
            /\ pc' = [pc EXCEPT ![c] = "close"]
       ELSE /\ out' = out
            /\ pc' = [pc EXCEPT ![c] = "closeread"]
    /\ UNCHANGED <<schema, table, initial, op, conn, lock, work, todo, rowcount>>

\* The read scope ends ("finally: conn.close()") with has_table empty.
CloseRead(c) ==
    /\ pc[c] = "closeread"
    /\ conn' = [conn EXCEPT ![c] = FALSE]
    /\ lock' = [lock EXCEPT ![c] = "unlocked"]
    /\ pc' = [pc EXCEPT ![c] = "openwrite"]
    /\ UNCHANGED <<schema, table, initial, op, work, seen, todo, rowcount, out>>

\* The sqlite3.connect of create_table's write scope.
OpenWrite(c) ==
    /\ pc[c] = "openwrite"
    /\ conn' = [conn EXCEPT ![c] = TRUE]
    /\ pc' = [pc EXCEPT ![c] = "create"]
    /\ UNCHANGED <<schema, table, initial, op, lock, work, seen, todo, rowcount, out>>

\* conn.executescript(CREATE TABLE ...), committed as it runs.  When the
\* table is there by now sqlite raises OperationalError, which "except
\* sqlite3.ProgrammingError" does not catch: it leaves the write scope
\* through its rollback and close, and __init__ raises it.
CreateTable(c) ==
    /\ pc[c] = "create"
    /\ CanReserve(c)
    /\ CanCommit(c)
    /\ IF schema
       THEN /\ out' = [out EXCEPT ![c] = Raises(TableExists)]
            /\ pc' = [pc EXCEPT ![c] = "rollback"]
            /\ UNCHANGED <<schema, table>>
       ELSE /\ schema' = TRUE
            /\ table' = EmptyTable
            /\ out' = [out EXCEPT ![c] = Returns(PyNone)]
            /\ pc' = [pc EXCEPT ![c] = "close"]
    /\ UNCHANGED <<initial, op, conn, lock, work, seen, todo, rowcount>>

(***************************************************************************)
(* BootSpec: every caller constructs a store on the same file and table at *)
(* the same time; the file is new or holds the table already, with rows.   *)
(***************************************************************************)
BootInit ==
    /\ schema \in BOOLEAN
    /\ table \in (IF schema THEN PairTables ELSE {EmptyTable})
    /\ initial = table
    /\ InitCallers

BootNext ==
    \E c \in Callers :
        \/ Construct(c)
        \/ CheckTable(c)
        \/ CloseRead(c)
        \/ OpenWrite(c)
        \/ CreateTable(c)
        \/ Rollback(c)
        \/ Close(c)

BootSpec == BootInit /\ [][BootNext]_vars

(***************************************************************************)
(* C15.  Concurrent constructions.                                         *)
(***************************************************************************)
\* C15: when stores are constructed at the same time for one file and
\* table, every construction that has ended has succeeded, the table is
\* then in the file, and the rows a table held before are all still there.
C15_BootstrapRaceTolerant ==
    \A c \in Callers :
        pc[c] = "done" =>
            /\ out[c] = Returns(PyNone)
            /\ schema
            /\ table = initial

(***************************************************************************)
(* C16.  Lock timeouts.                                                    *)
(***************************************************************************)
\* OSError("Error while opening <db_path>"), raised by both scopes when
\* sqlite3.connect fails.
OpenFailed == "OSError: Error while opening db_path"

\* C16: a call that gives up waiting for a lock another connection holds
\* raises the OSError that carries the path, without trying again, and
\* the committed rows stay as they are.
C16_TimeoutIsIOError ==
    [][\A c \in Callers :
          (Blocked(c) /\ out[c] = NoResult /\ out'[c].kind = "raise") =>
              /\ out'[c] = Raises(OpenFailed)
              /\ pc'[c] \in {"rollback", "close"}
              /\ table' = table]_vars

(***************************************************************************)
(* C17.  What a read sees of a write made at the same time.                *)
(***************************************************************************)
\* The rows the table can hold at a commit boundary while caller c reads:
\* the rows at the start, and the rows after the whole call of the other
\* caller.
CommittedFor(c) ==
    {initial} \cup
    {Alone(op[d], initial) :
        d \in {x \in {1, 2} \ {c} :
                  /\ pc[x] # "idle"
                  /\ \A k \in CheckedKeys(op[x]) : check_key(k)}}

InWriteScope(c) ==
    /\ conn[c]
    /\ op[c].name \notin ReadMethods
    /\ pc[c] \in {"execute", "executemany", "insert", "commit"}

\* Caller c is inside a read scope and has executed its SELECT.
InReadScope(c) == conn[c] /\ op[c].name \in ReadMethods /\ lock[c] = "shared"

\* C18: a write scope holds the file's write lock from the moment it is
\* opened, before its first statement, to its end, so that two write
\* scopes are never open at the same time.
C18_WriteScopeExclusive ==
    /\ \A c \in {1, 2} : InWriteScope(c) => lock[c] \in {"reserved", "pending"}
    /\ ~(InWriteScope(1) /\ InWriteScope(2))

\* C19: a read scope holds the same exclusive lock: two read scopes never
\* have their SELECTs executed at the same time, and no read scope has
\* while a write scope holds its lock.
C19_ReadersExclusive ==
    /\ ~(InReadScope(1) /\ InReadScope(2))
    /\ \A c, d \in {1, 2} :
          ~(InReadScope(c) /\ InWriteScope(d) /\ lock[d] \in {"reserved", "pending"})

(***************************************************************************)
(* C20.  The release of the connection.                                    *)
(***************************************************************************)
\* C20: a caller has a connection exactly from the opening of its scope
\* to the close that ends it, on every path (return, return from inside
\* the scope, exception), so a call that has ended holds no connection, no
\* lock and no open transaction; a write scope has ended its transaction,
\* by commit or by rollback, when it comes to release the connection; and
\* a writing call that raised from inside its scope has changed no row.
C20_ScopeReleased ==
    \A c \in {1, 2} :
        /\ conn[c] <=> pc[c] \notin {"idle", "connect", "done"}
        /\ pc[c] \in {"idle", "connect", "done"} =>
              lock[c] = "unlocked" /\ work[c] = EmptyTable
        /\ (pc[c] = "close" /\ op[c].name \notin ReadMethods) =>
              lock[c] = "unlocked"
        /\ (/\ pc[c] \in {"close", "done"}
            /\ op[c].name \notin ReadMethods
            /\ out[c] \in {Raises(DatabaseLocked), Raises(UniqueFailed)}) =>
              table \in CommittedFor(c)

\* An update has executed all its records, timed out at its commit while
\* the other caller was reading, and has ended.
C20_Witness ==
    \E c \in {1, 2} :
        /\ op[c].name = "update"
        /\ todo[c] = {}
        /\ seen[c] = initial
        /\ out[c] = Raises(DatabaseLocked)
        /\ pc[c] = "done"
        /\ ~conn[c]
        /\ table = initial

(***************************************************************************)
(* LiveSpec: two callers make call after call on the same file.  The       *)
(* thread of a call always takes the call's next step: a statement or a    *)
(* commit that waits for a lock ends by getting the lock or by the busy    *)
(* timeout of its connection, whichever comes.                             *)
(***************************************************************************)
\* The calls of LiveSpec: a write of all rows, a batch, a read, and
\* atomic_add while the counter stays within MaxInt.
LiveCalls(tbl) ==
    { [name |-> "clear"],
      [name |-> "update", items |-> (KeyA :> PyInt(1))],
      [name |-> "keys"] }
    \cup {o \in {[name |-> "atomic_add", key |-> KeyA, value |-> PyInt(1)]} :
             WithinMaxInt(tbl, o.key, o.value)}

LiveInit ==
    /\ schema = TRUE
    /\ table = EmptyTable
    /\ initial = table
    /\ InitCallers

LiveInvoke(c) == \E o \in LiveCalls(table) : Invoke(c, o)

\* The next step of the call caller c is in.
Step(c) ==
    \/ Connect(c)
    \/ Select(c)
    \/ Execute(c)
    \/ ExecuteMany(c)
    \/ Insert(c)
    \/ Commit(c)
    \/ CommitWait(c)
    \/ Locked(c)
    \/ Rollback(c)
    \/ Close(c)

LiveNext ==
    \E c \in {1, 2} :
        \/ LiveInvoke(c)
        \/ Step(c)
        \/ Return(c)

LiveSpec ==
    /\ LiveInit
    /\ [][LiveNext]_vars
    /\ \A c \in {1, 2} : WF_vars(Step(c))

(***************************************************************************)
(* C21.  Every call ends.                                                  *)
(***************************************************************************)
\* C21: every call a caller has made comes to its end, having returned or
\* raised (the lock timeout included), whatever the other caller does
\* meanwhile; callers never wait for each other for ever.
C21_EveryCallEnds ==
    \A c \in {1, 2} :
        (pc[c] = "connect") ~> (pc[c] = "done" /\ out[c] # NoResult)

\* Both callers have ended a call: one waited for the lock of the other
\* and timed out, the other returned.
C21_Witness ==
    /\ pc[1] = "done"
    /\ out[1] = Raises(DatabaseLocked)
    /\ pc[2] = "done"
    /\ out[2].kind = "return"

(***************************************************************************)
(* C22.  The reading methods agree with to_dict.                           *)
(***************************************************************************)
\* Keys to ask for: the keys the calls store and one never stored.
AskedKeys == GoodKeys \cup {PyStr(<<"b">>)}

\* What the reading methods give on the rows tbl agrees with the dict S
\* that to_dict gives on them.
AgreesWith(tbl, S) ==
    /\ keys(tbl).kind = "return"
    /\ {keys(tbl).v.l[i] : i \in DOMAIN keys(tbl).v.l} = DOMAIN S
    /\ Len(keys(tbl).v.l) = Cardinality(DOMAIN S)
    /\ __len__(tbl) = Returns(PyInt(Cardinality(DOMAIN S)))
    /\ \A k \in AskedKeys :
          /\ has_key(tbl, k) = Returns(PyBool(k \in DOMAIN S))
          /\ k \in DOMAIN S => get(tbl, k, Absent) = Returns(S[k])
    /\ \A K \in SUBSET AskedKeys :
          get_many(tbl, K) = Returns(PyDict([k \in K \cap DOMAIN S |-> S[k]]))

\* C22: whatever rows the caller's calls have left (every table the model
\* reaches is the table of a state between two calls), with S the dict
\* to_dict gives, has_key(k) is True
\* exactly for the keys of S, keys() lists exactly the keys of S, len is
\* their number, get(k) is S[k] for a key of S and get_many(K) is S on the
\* keys of K that S has, the others left out; and a has_key, keys, len,
\* get or get_many call that has ended gave what S of the rows it found
\* says.
C22_ReadsAgree ==
    /\ pc[1] = "idle" =>
          LET snapshot == to_dict(table)
          IN snapshot.kind = "return" /\ AgreesWith(table, snapshot.v.d)
    /\ \A name \in {"has_key", "keys", "__len__", "get", "get_many"} :
          (Finished(name) /\ \A k \in KeyArguments(op[1]) : check_key(k)) =>
              LET S == to_dict(seen[1]).v.d
              IN CASE name = "has_key" ->
                        out[1] = Returns(PyBool(op[1].key \in DOMAIN S))
                   [] name = "keys" ->
                        {out[1].v.l[i] : i \in DOMAIN out[1].v.l} = DOMAIN S
                   [] name = "__len__" ->
                        out[1] = Returns(PyInt(Cardinality(DOMAIN S)))
                   [] name = "get" ->
                        out[1] = Returns(IF op[1].key \in DOMAIN S THEN S[op[1].key]
                                         ELSE op[1].default)
                   [] name = "get_many" ->
                        out[1] = Returns(PyDict([k \in op[1].a_set \cap DOMAIN S |-> S[k]]))

\* has_key has returned True for a key whose stored value is None, in a
\* table with two rows.
C22_Witness ==
    /\ Finished("has_key")
    /\ check_key(op[1].key)
    /\ Cardinality(DOMAIN seen[1]) = 2
    /\ get(seen[1], op[1].key, Absent) = Returns(PyNone)
    /\ out[1] = Returns(PyBool(TRUE))

(***************************************************************************)
(* C23.  What a call leaves alone.                                         *)
(***************************************************************************)
\* The key k has the same row, or no row, in both tables.
SameRow(old, new, k) ==
    /\ k \in DOMAIN old <=> k \in DOMAIN new
    /\ k \in DOMAIN old => old[k] = new[k]

\* C23: no step of a set, set_default, remove or atomic_add call changes
\* the presence or the value of a key other than the call's key, and no
\* step of a reading call (get, get_or_raise, has_key, keys, key_range,
\* dict_range, get_range, get_many, to_dict, len) changes any row.
C23_FrameEffect ==
    [][/\ op'[1].name \in ReadMethods => table' = table
       /\ op'[1].name \in {"set", "set_default", "remove", "atomic_add"} =>
             IF check_key(op'[1].key)
             THEN \A k \in (DOMAIN table \cup DOMAIN table') \ {op'[1].key.s} :
                     SameRow(table, table', k)
             ELSE table' = table]_vars

\* remove("a") has deleted its row from a table of two rows and the row
\* of "1" is as it was.
C23_Witness ==
    /\ Finished("remove")
    /\ op[1].key = KeyA
    /\ DOMAIN seen[1] = {KeyOne.s, KeyA.s}
    /\ DOMAIN table = {KeyOne.s}
    /\ table[KeyOne.s] = seen[1][KeyOne.s]

(***************************************************************************)
(* C24.  The INSERT of atomic_add.                                         *)
(***************************************************************************)
\* C24: with two callers writing the same key at the same time
\* (atomic_add, set, set_default and the others), when an atomic_add comes
\* to its INSERT the key has no row, neither committed nor in its own
\* transaction, and no other connection holds a write lock, so that no
\* row for the key can appear before its commit; no atomic_add ever ends
\* with the UNIQUE constraint failing.  (The table has one row per key by
\* its PRIMARY KEY: it is a function of the key.)
C24_InsertNeverCollides ==
    \A c \in {1, 2} :
        /\ out[c] # Raises(UniqueFailed)
        /\ pc[c] = "insert" =>
              /\ lock[c] = "reserved"
              /\ op[c].key.s \notin DOMAIN table
              /\ op[c].key.s \notin DOMAIN work[c]
              /\ \A d \in Callers \ {c} : lock[d] \notin {"reserved", "pending"}

\* An atomic_add is at its INSERT while the other caller, a set_default
\* of the same key, has its connection open and its statement to run.
C24_Witness ==
    \E c, d \in {1, 2} :
        /\ pc[c] = "insert"
        /\ op[d].name = "set_default"
        /\ op[d].key = op[c].key
        /\ pc[d] = "execute"

=============================================================================
